---- MODULE Spec2Model ----
(***************************************************************************)
(* Model of reverie_offline.py: the ReverieServer controller (fork-and-    *)
(* load construction, save, the start_server tick loop) and the headless   *)
(* sim_frontend bridge.  The step of start_server is split at its phase    *)
(* boundaries (pc) so that the order of the phases inside a tick is        *)
(* visible; "between ticks" is pc \in {"idle", "loop"}.                    *)
(*                                                                         *)
(* Maze (maze_neo), Persona and utils are imported, not part of the file:  *)
(* the tile-event store follows the contract of spec section 4.2 and the   *)
(* agent runtime is an input (section 4.5).  fs_storage is taken to be the *)
(* storage directory sim_frontend writes to.                               *)
(***************************************************************************)
EXTENDS Integers, Sequences, FiniteSets, TLC

\* ------------------------------------------------------------- bounds
MaxStep == 2
MaxRun == 2
MaxNonePolls == 2

\* ------------------------------------------------------------- universe
Sims == {"base", "trial1"}
PersonaNames == <<"p1", "p2">>
Agents == {PersonaNames[i] : i \in 1..Len(PersonaNames)}
Tiles == {"t1", "t2"}
None == "None"
NoTime == -1
SecondsPerDay == 86400
StepSeconds == {600, 43200}

\* ------------------------------------------------------------- time
\* strftime("%B %d, %Y, %H:%M:%S") / strptime of the same format
FormatDateTime(t) ==
  <<t \div SecondsPerDay, (t % SecondsPerDay) \div 3600,
    (t % 3600) \div 60, t % 60>>
ParseDateTime(s) == s[1] * SecondsPerDay + s[2] * 3600 + s[3] * 60 + s[4]
\* strftime("%B %d, %Y") / strptime(f"{start_date}, 00:00:00", ...)
FormatDate(t) == t \div SecondsPerDay
ParseDate(d) == d * SecondsPerDay
\* strftime('%a %b %d'): weekday, month and day of the month, the year left
\* out (days counted from start_date's, years of 365 days)
FormatDay(t) == <<(t \div SecondsPerDay) % 7, (t \div SecondsPerDay) % 365>>
\* new_day = False
NotNewDay == "False"
\* (variant: the days compared once scratch.curr_time is already the clock)
NewDayFlag_AfterAssign(last, now) ==
  IF last = NoTime THEN "First day" ELSE NotNewDay
\* the new_day handed to persona.move, from scratch.curr_time and self.curr_time
NewDayFlag(last, now) ==
  IF last = NoTime THEN "First day"
  ELSE IF FormatDay(last) # FormatDay(now) THEN "New day"
  ELSE NotNewDay

\* ------------------------------------------------------------- agent runtime
\* persona.scratch as far as the controller reads it: the current activity,
\* the object acted on with its state, whether a planned path remains, and
\* the time of the last activation.
ScratchStates ==
  { [act |-> "sleeping", addr |-> "bed", ostate |-> "occupied", path |-> FALSE],
    [act |-> "tidying",  addr |-> "bed", ostate |-> "unmade",   path |-> FALSE],
    [act |-> "tidying",  addr |-> "bed", ostate |-> "unmade",   path |-> TRUE] }
\* What one perceive/move cycle of a persona standing on tile cur may come
\* to: the tile to go to next and the scratch it leaves.  The next tile is
\* the head of the planned path, or cur when there is no path: stay asleep,
\* stay and tidy, take the last step of a path, or walk on with path left.
Decisions(cur) ==
  { d \in [next : Tiles, sc : ScratchStates] :
      \/ d.next = cur /\ ~d.sc.path
      \/ d.next # cur /\ ~d.sc.path /\ d.sc.act = "sleeping"
      \/ d.next # cur /\ d.sc.path }
\* scratch.get_curr_event_and_desc()
get_curr_event_and_desc(name, sc) == <<name, "is", sc.act, sc.act>>
\* scratch.get_curr_obj_event_and_desc()
get_curr_obj_event_and_desc(sc) == <<sc.addr, "is", sc.ostate, sc.ostate>>
BlankEvent(subject) == <<subject, None, None, None>>
IsIdle(ev) == ev[2] = None /\ ev[3] = None /\ ev[4] = None

\* ------------------------------------------------------------- tile store
\* Maze(maze_name): every game object has its idle placeholder on its tile.
InitialTiles == [t \in Tiles |-> IF t = "t1" THEN {BlankEvent("bed")} ELSE {}]
add_event_from_tile(tl, ev, t) == [tl EXCEPT ![t] = @ \cup {ev}]
remove_event_from_tile(tl, ev, t) == [tl EXCEPT ![t] = @ \ {ev}]
remove_subject_events_from_tile(tl, subject, t) ==
  [tl EXCEPT ![t] = {e \in @ : e[1] # subject}]
turn_event_from_tile_idle(tl, ev, t) ==
  IF ev \in tl[t]
    THEN [tl EXCEPT ![t] = (@ \ {ev}) \cup {BlankEvent(ev[1])}]
    ELSE tl

\* ------------------------------------------------------------- storage
\* One persisted snapshot tree: reverie/meta.json, environment/<step>.json,
\* movement/<step>.json and personas/<name>/bootstrap_memory.
Absent == [exists |-> FALSE]
\* environment/<step>.json as construction reads it: name -> {x, y, start_node}
FullEnv(pos) == [form |-> "full", pos |-> pos]
\* environment/<step>.json as sim_frontend writes it: name -> position
BareEnv(pos) == [form |-> "bare", pos |-> pos]
\* The hand-authored ancestor snapshot (it has no fork source).
BaseSnapshot(sps, pos, scr) ==
  [exists |-> TRUE,
   meta |-> [fork_sim_code |-> None, start_date |-> FormatDate(0),
             curr_time |-> FormatDateTime(85200), sec_per_step |-> sps,
             maze_name |-> "the_ville", persona_names |-> PersonaNames,
             step |-> 0],
   environment |-> (0 :> FullEnv(pos)),
   movement |-> <<>>,
   personas |-> scr]
\* What an earlier session (fork of base, one tick, save) leaves on disk.
StaleSnapshot ==
  LET sc == CHOOSE x \in ScratchStates : x.act = "sleeping"
      ps == [a \in Agents |-> "t1"]
  IN [exists |-> TRUE,
      meta |-> [fork_sim_code |-> "base", start_date |-> FormatDate(0),
                curr_time |-> FormatDateTime(85800), sec_per_step |-> 600,
                maze_name |-> "the_ville", persona_names |-> PersonaNames,
                step |-> 1],
      environment |-> (0 :> FullEnv(ps)) @@ (1 :> BareEnv(ps)),
      movement |-> (0 :> [persona |-> [a \in Agents |->
                                [movement |-> "t1", pronunciatio |-> "sleeping",
                                 description |-> "sleeping", chat |-> None]],
                          meta |-> [curr_time |-> FormatDateTime(85200)]]),
      personas |-> [a \in Agents |-> sc @@ [curr_time |-> 85200]]]

\* The hand-authored start: the first persona on the bed's tile, everyone
\* asleep with no path left and never activated.
InitialPositions == {pos \in [Agents -> Tiles] : pos[PersonaNames[1]] = "t1"}
InitialScratch ==
  [act |-> "sleeping", addr |-> "bed", ostate |-> "occupied", path |-> FALSE,
   curr_time |-> NoTime]

VARIABLES
  fs,               \* fs_storage: snapshot id -> persisted tree
  frontend_pos,     \* module-level dict: persona name -> position
  ctl,              \* "none": no ReverieServer yet; "live": constructed;
                    \* "failed": the last __init__ raised
  fork_sim_code, sim_code, start_time, curr_time, sec_per_step, maze_name,
  step,
  personas,         \* persona name -> scratch
  personas_tile,    \* persona name -> tile
  tiles,            \* self.maze: tile -> set of event tuples
  pc,               \* position inside start_server ("idle": not running)
  int_counter, backend_data, game_obj_cleanup, frontend_data, movements,
  curr_move_file,   \* locals of start_server
  idx,              \* position of the per-persona loops
  new_day,          \* local of the second loop: the flag last handed to move
  runN, runStartStep, runStartTime,   \* arguments/values at the call
  nonePolls,        \* polls of this call that were answered None
  overwrote,        \* the __init__ just run found its target folder existing
  spawned, prevSpawned  \* (event, tile) pairs added in this / the last tick

ctlVars == <<ctl, fork_sim_code, sim_code, start_time, curr_time, sec_per_step,
             maze_name, step, personas, personas_tile, tiles>>
runVars == <<pc, int_counter, backend_data, game_obj_cleanup, frontend_data,
             movements, curr_move_file, idx, new_day>>
histVars == <<runN, runStartStep, runStartTime, nonePolls, overwrote, spawned,
              prevSpawned>>
vars == <<fs, frontend_pos, ctlVars, runVars, histVars>>

NoScratch == [act |-> None, addr |-> None, ostate |-> None, path |-> FALSE,
              curr_time |-> NoTime]
NoMovements == [persona |-> <<>>, meta |-> <<>>]

Init ==
  /\ \E sps \in StepSeconds, pos \in InitialPositions,
        old \in {Absent, StaleSnapshot} :
       fs = [s \in Sims |->
               IF s = "base"
                 THEN BaseSnapshot(sps, pos, [a \in Agents |-> InitialScratch])
                 ELSE old]
  /\ frontend_pos = [a \in Agents |-> None]
  /\ ctl = "none"
  /\ fork_sim_code = None /\ sim_code = None
  /\ start_time = 0 /\ curr_time = 0 /\ sec_per_step = 0
  /\ maze_name = None /\ step = 0
  /\ personas = [a \in Agents |-> NoScratch]
  /\ personas_tile = [a \in Agents |-> None]
  /\ tiles = [t \in Tiles |-> {}]
  /\ pc = "idle" /\ int_counter = 0
  /\ backend_data = [time |-> FormatDateTime(0), persona |-> [a \in Agents |-> None]]
  /\ game_obj_cleanup = {}
  /\ frontend_data = [a \in Agents |-> None]
  /\ movements = NoMovements
  /\ curr_move_file = -1
  /\ idx = 0
  /\ new_day = NotNewDay
  /\ runN = 0 /\ runStartStep = 0 /\ runStartTime = 0
  /\ nonePolls = 0
  /\ overwrote = FALSE
  /\ spawned = {} /\ prevSpawned = {}

\* ------------------------------------------------------------- __init__
RECURSIVE PublishInitial(_, _, _, _)
\* the loading loop: add_event_from_tile(get_curr_event_and_desc(), start_node)
PublishInitial(tl, names, scr, pos) ==
  IF names = <<>> THEN tl
  ELSE PublishInitial(
         add_event_from_tile(tl, get_curr_event_and_desc(Head(names), scr[Head(names)]),
                             pos[Head(names)]),
         Tail(names), scr, pos)

\* (variant: an existing target folder is left in place)
RemoveTarget_Keep(f, target) == f
\* if os.path.exists(sim_folder): shutil.rmtree(sim_folder)
RemoveTarget(f, target) == [f EXCEPT ![target] = Absent]
\* copyanything(fork_folder, sim_folder), then meta.json's fork_sim_code rewritten
CopyFork(f, fork, target) ==
  [f EXCEPT ![target] = [f[fork] EXCEPT !.meta.fork_sim_code = fork]]

\* The loading loop of __init__ gets through on a snapshot tree: it opens
\* environment/<step>.json and reads ["x"], ["y"] and ["start_node"] of every
\* persona's entry.
Loadable(snap) ==
  /\ snap.exists
  /\ snap.meta.step \in DOMAIN snap.environment
  /\ snap.environment[snap.meta.step].form = "full"

\* ReverieServer(fork, target).  The copy raises when the fork folder does not
\* exist (also when it was the target just removed); the loading loop raises
\* when environment/<step>.json is missing or is not in the x/y/start_node form.
\* A raise leaves no usable controller, but keeps what was done to the storage
\* (and self.fork_sim_code, self.sim_code, which are assigned first).
Construct(fork, target) ==
  /\ ctl # "live" /\ pc = "idle"
  /\ overwrote' = fs[target].exists
  /\ LET f1 == RemoveTarget(fs, target)
         copied == f1[fork].exists
         f2 == IF copied THEN CopyFork(f1, fork, target) ELSE f1
         loaded == copied /\ Loadable(f2[target])
     IN /\ fs' = f2
        /\ IF loaded
             THEN LET meta == f2[target].meta
                      init_env == f2[target].environment[meta.step].pos
                      scr == f2[target].personas
                  IN /\ ctl' = "live"
                     /\ fork_sim_code' = fork
                     /\ sim_code' = target
                     /\ start_time' = ParseDate(meta.start_date)
                     /\ curr_time' = ParseDateTime(meta.curr_time)
                     /\ sec_per_step' = meta.sec_per_step
                     /\ maze_name' = meta.maze_name
                     /\ step' = meta.step
                     /\ personas' = scr
                     /\ personas_tile' = init_env
                     /\ frontend_pos' = init_env
                     /\ tiles' = PublishInitial(InitialTiles, meta.persona_names,
                                                scr, init_env)
             ELSE /\ ctl' = "failed"
                  /\ fork_sim_code' = fork
                  /\ sim_code' = target
                  /\ UNCHANGED <<frontend_pos, start_time, curr_time,
                                 sec_per_step, maze_name, step, personas,
                                 personas_tile, tiles>>
  /\ UNCHANGED <<runVars, runN, runStartStep, runStartTime, nonePolls, spawned,
                 prevSpawned>>

\* ------------------------------------------------------------- save
\* (variant: the step of the metadata left as the storage has it)
SaveMeta_KeepStep ==
  [fork_sim_code |-> fork_sim_code,
   start_date |-> FormatDate(start_time),
   curr_time |-> FormatDateTime(curr_time),
   sec_per_step |-> sec_per_step,
   maze_name |-> maze_name,
   persona_names |-> PersonaNames,
   step |-> fs[sim_code].meta.step]
\* (variant: the lineage field saved as the snapshot's own id)
SaveMeta_OwnId ==
  [fork_sim_code |-> sim_code,
   start_date |-> FormatDate(start_time),
   curr_time |-> FormatDateTime(curr_time),
   sec_per_step |-> sec_per_step,
   maze_name |-> maze_name,
   persona_names |-> PersonaNames,
   step |-> step]
SaveMeta ==
  [fork_sim_code |-> fork_sim_code,
   start_date |-> FormatDate(start_time),
   curr_time |-> FormatDateTime(curr_time),
   sec_per_step |-> sec_per_step,
   maze_name |-> maze_name,
   persona_names |-> PersonaNames,
   step |-> step]
\* (variant: save() writing into the fork source's folder)
SaveFolder_Source == fork_sim_code
\* the folder save() writes to
SaveFolder == sim_code
Save ==
  /\ ctl = "live" /\ pc = "idle"
  /\ fs' = [fs EXCEPT ![SaveFolder].meta = SaveMeta,
                      ![SaveFolder].personas = personas]
  /\ UNCHANGED <<frontend_pos, ctlVars, runVars, histVars>>

\* ------------------------------------------------------------- sim_frontend
\* The headless bridge: copies the backend's positions into frontend_pos,
\* writes them as environment/<step + 1>.json of sim_code and returns them.
\* (variant: the environment file named after the step index passed in)
EnvFileIndex_Given(st) == st
\* step += 1, then .../environment/{step}.json
EnvFileIndex(st) == st + 1
sim_frontend(fpos, bdata, st, code, f) ==
  LET pos == [a \in Agents |-> bdata.persona[a]]
  IN [frontend_pos |-> pos,
      fs |-> [f EXCEPT ![code].environment =
                         (EnvFileIndex(st) :> BareEnv(pos)) @@ @],
      environment |-> pos]

\* ------------------------------------------------------------- start_server
\* game_obj_cleanup[ev] = tile, the dict held as a set of (key, value) pairs
LedgerPut(ledger, ev, t) == {p \in ledger : p[1] # ev} \cup {<<ev, t>>}

RECURSIVE IdleAll(_, _)
\* for key, val in game_obj_cleanup.items(): turn_event_from_tile_idle(key, val)
IdleAll(tl, ledger) ==
  IF ledger = {} THEN tl
  ELSE LET p == CHOOSE q \in ledger : TRUE
       IN IdleAll(turn_event_from_tile_idle(tl, p[1], p[2]), ledger \ {p})

\* the ledger a call of start_server begins with
FreshLedger == {}

\* the call itself, up to the first test of the loop
StartServer(n) ==
  /\ ctl = "live" /\ pc = "idle"
  /\ UNCHANGED new_day
  /\ step + n <= MaxStep
  /\ backend_data' = [time |-> FormatDateTime(curr_time), persona |-> frontend_pos]
  /\ game_obj_cleanup' = FreshLedger
  /\ int_counter' = n
  /\ pc' = "loop"
  /\ runN' = n /\ runStartStep' = step /\ runStartTime' = curr_time
  /\ nonePolls' = 0
  /\ overwrote' = FALSE
  /\ UNCHANGED <<fs, frontend_pos, ctlVars, frontend_data, movements,
                 curr_move_file, idx, spawned, prevSpawned>>

\* if int_counter == 0: break
LoopExit ==
  /\ pc = "loop" /\ int_counter = 0
  /\ UNCHANGED new_day
  /\ pc' = "idle"
  /\ nonePolls' = 0
  /\ UNCHANGED <<fs, frontend_pos, ctlVars, int_counter, backend_data,
                 game_obj_cleanup, frontend_data, movements, curr_move_file, idx,
                 runN, runStartStep, runStartTime, overwrote, spawned,
                 prevSpawned>>

\* frontend_data = sim_frontend(...); it is not None
PollUpdate ==
  /\ pc = "loop" /\ int_counter # 0
  /\ UNCHANGED new_day
  /\ step < MaxStep
  /\ LET r == sim_frontend(frontend_pos, backend_data, step, sim_code, fs)
     IN /\ frontend_pos' = r.frontend_pos
        /\ fs' = r.fs
        /\ frontend_data' = r.environment
  /\ pc' = "cleanup"
  /\ UNCHANGED <<ctlVars, int_counter, backend_data, game_obj_cleanup, movements,
                 curr_move_file, idx, histVars>>

\* (variant: the entries kept once they were idled)
EmptiedLedger_Kept == game_obj_cleanup
\* game_obj_cleanup = dict(), after the idle calls
EmptiedLedger == {}
\* the cleanup of the object events of the last cycle
Cleanup ==
  /\ pc = "cleanup"
  /\ UNCHANGED new_day
  /\ tiles' = IdleAll(tiles, game_obj_cleanup)
  /\ game_obj_cleanup' = EmptiedLedger
  /\ pc' = "move" /\ idx' = 1
  /\ UNCHANGED <<fs, frontend_pos, ctl, fork_sim_code, sim_code, start_time,
                 curr_time, sec_per_step, maze_name, step, personas,
                 personas_tile, int_counter, backend_data, frontend_data,
                 movements, curr_move_file, histVars>>

\* (variant: the persona's events looked for on the tile it moves to)
PreviousTile_New(name) == frontend_data[name]
\* curr_tile = self.personas_tile[persona_name]
PreviousTile(name) == personas_tile[name]
\* one iteration of the first loop over self.personas
MovePersona ==
  /\ pc = "move"
  /\ UNCHANGED new_day
  /\ LET name == PersonaNames[idx]
         sc == personas[name]
         curr_tile == PreviousTile(name)
         new_tile == frontend_data[name]
         ev == get_curr_event_and_desc(name, sc)
         objev == get_curr_obj_event_and_desc(sc)
         t1 == remove_subject_events_from_tile(tiles, name, curr_tile)
         t2 == add_event_from_tile(t1, ev, new_tile)
         t3 == add_event_from_tile(t2, objev, new_tile)
         t4 == remove_event_from_tile(t3, BlankEvent(objev[1]), new_tile)
     IN /\ personas_tile' = [personas_tile EXCEPT ![name] = new_tile]
        /\ IF ~sc.path
             THEN /\ game_obj_cleanup' = LedgerPut(game_obj_cleanup, objev, new_tile)
                  /\ tiles' = t4
                  /\ spawned' = spawned \cup {<<objev, new_tile>>}
             ELSE /\ tiles' = t2
                  /\ UNCHANGED <<game_obj_cleanup, spawned>>
  /\ IF idx = Len(PersonaNames)
       THEN pc' = "decide" /\ idx' = 1 /\ movements' = NoMovements
       ELSE pc' = "move" /\ idx' = idx + 1 /\ UNCHANGED movements
  /\ UNCHANGED <<fs, frontend_pos, ctl, fork_sim_code, sim_code, start_time,
                 curr_time, sec_per_step, maze_name, step, personas,
                 int_counter, backend_data, frontend_data, curr_move_file,
                 runN, runStartStep, runStartTime, nonePolls, overwrote,
                 prevSpawned>>

\* (variant: the second loop going through the personas backwards)
DecideOrder_Reversed(i) == PersonaNames[Len(PersonaNames) + 1 - i]
\* the i-th persona of "for persona_name, persona in self.personas.items()"
DecideOrder(i) == PersonaNames[i]
\* (variant: the batch begun anew with every persona)
BatchPut_Alone(batch, name, entry) == name :> entry
\* movements["persona"][persona_name] = {"movement": ..., "pronunciatio": ...,
\* "description": ..., "chat": ...}
BatchPut(batch, name, entry) == (name :> entry) @@ batch
\* one iteration of the second loop: perceive and move of one persona, whose
\* outcome (next tile, new scratch) is the agent runtime's choice
DecidePersona ==
  /\ pc = "decide"
  /\ \E d \in Decisions(personas_tile[DecideOrder(idx)]) :
       LET name == DecideOrder(idx)
           next_tile == d.next
           sc2 == d.sc
           entry == [movement |-> next_tile, pronunciatio |-> sc2.act,
                     description |-> sc2.act, chat |-> None]
       IN /\ new_day' = NewDayFlag(personas[name].curr_time, curr_time)
          /\ personas' = [personas EXCEPT
                            ![name] = sc2 @@ [curr_time |-> curr_time]]
          /\ movements' = [movements EXCEPT !.persona = BatchPut(@, name, entry)]
          /\ backend_data' = [backend_data EXCEPT !.persona[name] = next_tile]
  /\ IF idx = Len(PersonaNames)
       THEN pc' = "persist" /\ idx' = 0
       ELSE pc' = "decide" /\ idx' = idx + 1
  /\ UNCHANGED <<fs, frontend_pos, ctl, fork_sim_code, sim_code, start_time,
                 curr_time, sec_per_step, maze_name, step, personas_tile, tiles,
                 int_counter, game_obj_cleanup, frontend_data, curr_move_file,
                 histVars>>

\* (variant: the movement file named after the step to come)
MoveFileIndex_Next == step + 1
\* curr_move_file = f"{sim_folder}/movement/{self.step}.json"
MoveFileIndex == step
\* perceive or move of one persona raises: nothing in start_server catches
\* it, so the call ends there, after scratch.curr_time was assigned; the rest
\* of the tick (the personas after this one, the movement file, the advance
\* of step and clock) is not run.
DecideRaises ==
  /\ pc = "decide"
  /\ LET name == DecideOrder(idx)
     IN /\ new_day' = NewDayFlag(personas[name].curr_time, curr_time)
        /\ personas' = [personas EXCEPT ![name].curr_time = curr_time]
  /\ pc' = "idle"
  /\ UNCHANGED <<fs, frontend_pos, ctl, fork_sim_code, sim_code, start_time,
                 curr_time, sec_per_step, maze_name, step, personas_tile, tiles,
                 int_counter, backend_data, game_obj_cleanup, frontend_data,
                 movements, curr_move_file, idx, histVars>>

\* (variant: the batch stamped with the time the tick advances to)
MoveStamp_Advanced == FormatDateTime(curr_time + sec_per_step)
\* movements["meta"]["curr_time"] = self.curr_time.strftime("%B %d, %Y, %H:%M:%S")
MoveStamp == FormatDateTime(curr_time)
\* movements["meta"], backend_data['time'] and the write of the movement file
PersistMovement ==
  /\ pc = "persist"
  /\ UNCHANGED new_day
  /\ LET stamp == MoveStamp
         out == [movements EXCEPT !.meta = [curr_time |-> stamp]]
     IN /\ movements' = out
        /\ backend_data' = [backend_data EXCEPT !.time = stamp]
        /\ curr_move_file' = MoveFileIndex
        /\ fs' = [fs EXCEPT ![sim_code].movement = (MoveFileIndex :> out) @@ @]
  /\ pc' = "advance"
  /\ UNCHANGED <<frontend_pos, ctlVars, int_counter, game_obj_cleanup,
                 frontend_data, idx, histVars>>

\* self.step += 1
NextStep == step + 1
\* (variant: the clock left where it was)
NextTime_Stalled == curr_time
\* self.curr_time += datetime.timedelta(seconds=self.sec_per_step)
NextTime == curr_time + sec_per_step
\* (variant: two counted off per tick)
NextCounter_Twice == int_counter - 2
\* int_counter -= 1
NextCounter == int_counter - 1
Advance ==
  /\ pc = "advance"
  /\ UNCHANGED new_day
  /\ step' = NextStep
  /\ curr_time' = NextTime
  /\ int_counter' = NextCounter
  /\ pc' = "loop"
  /\ prevSpawned' = spawned /\ spawned' = {}
  /\ UNCHANGED <<fs, frontend_pos, ctl, fork_sim_code, sim_code, start_time,
                 sec_per_step, maze_name, personas, personas_tile, tiles,
                 backend_data, game_obj_cleanup, frontend_data, movements,
                 curr_move_file, idx, runN, runStartStep, runStartTime,
                 nonePolls, overwrote>>

\* EnvironmentBridge contract (spec 4.4): a poll may find no update yet.
BridgeMayDefer == nonePolls < MaxNonePolls
\* (variant: a poll without an update counted as a tick)
PollNoUpdate_Counted ==
  /\ pc = "loop" /\ int_counter # 0
  /\ UNCHANGED new_day
  /\ BridgeMayDefer
  /\ nonePolls' = nonePolls + 1
  /\ int_counter' = int_counter - 1
  /\ UNCHANGED <<fs, frontend_pos, ctlVars, pc, backend_data, game_obj_cleanup,
                 frontend_data, movements, curr_move_file, idx, runN,
                 runStartStep, runStartTime, overwrote, spawned, prevSpawned>>
\* frontend_data is None: nothing but time.sleep(self.server_sleep)
PollNoUpdate ==
  /\ pc = "loop" /\ int_counter # 0
  /\ BridgeMayDefer
  /\ nonePolls' = nonePolls + 1
  /\ UNCHANGED <<fs, frontend_pos, ctlVars, runVars, runN, runStartStep,
                 runStartTime, overwrote, spawned, prevSpawned>>

Tick == PollUpdate \/ Cleanup \/ MovePersona \/ DecidePersona
          \/ PersistMovement \/ Advance

Next ==
  \/ \E fork \in Sims, target \in Sims : Construct(fork, target)
  \/ Save
  \/ \E n \in 0..MaxRun : StartServer(n)
  \/ LoopExit
  \/ PollUpdate
  \/ Cleanup
  \/ MovePersona
  \/ DecidePersona
  \/ PersistMovement
  \/ Advance

Spec == Init /\ [][Next]_vars

\* The same controller behind a bridge that may answer "no update yet".
NextWait == Next \/ PollNoUpdate
SpecWait == Init /\ [][NextWait]_vars
\* One thread runs start_server to completion: a step that can be taken is
\* taken, and the bridge delivers the update of each step in the end.
\* (Started from a storage that holds base alone, with steps of ten minutes
\* and everyone on the bed's tile.)
InitFair ==
  /\ Init
  /\ ~fs["trial1"].exists
  /\ fs["base"].meta.sec_per_step = 600
  /\ \A a \in Agents : fs["base"].environment[0].pos[a] = "t1"
\* (save is left out: it runs only between calls and touches the storage alone)
NextFair ==
  \/ \E fork \in Sims, target \in Sims : Construct(fork, target)
  \/ \E n \in 0..MaxRun : StartServer(n)
  \/ LoopExit
  \/ Tick
  \/ PollNoUpdate
FairWait ==
  InitFair /\ [][NextFair]_vars /\ WF_vars(Tick) /\ WF_vars(LoopExit)

\* EnvironmentBridge contract (spec 4.4) with a bridge that has no update at
\* a poll: frontend_data is None, so the body of the loop is skipped and
\* time.sleep(self.server_sleep) is next.
\* (nonePolls counts these polls up to MaxNonePolls and stays there.)
PollNever ==
  /\ pc = "loop" /\ int_counter # 0
  /\ nonePolls' = IF nonePolls < MaxNonePolls THEN nonePolls + 1 ELSE nonePolls
  /\ pc' = "sleep"
  /\ UNCHANGED <<fs, frontend_pos, ctlVars, int_counter, backend_data,
                 game_obj_cleanup, frontend_data, movements, curr_move_file,
                 idx, new_day, runN, runStartStep, runStartTime, overwrote,
                 spawned, prevSpawned>>
\* time.sleep(self.server_sleep) is over: back to the test of the loop
SleepOver ==
  /\ pc = "sleep"
  /\ pc' = "loop"
  /\ UNCHANGED <<fs, frontend_pos, ctlVars, int_counter, backend_data,
                 game_obj_cleanup, frontend_data, movements, curr_move_file,
                 idx, new_day, histVars>>
\* The controller behind a bridge that need not ever have an update (no
\* fairness on PollUpdate); the thread of start_server keeps running: it
\* polls while it waits, carries on with a tick once it has the update and
\* returns when int_counter is 0.  (Started from the storage of InitFair.)
NextNoUpdate ==
  \/ \E fork \in Sims, target \in Sims : Construct(fork, target)
  \/ \E n \in 0..MaxRun : StartServer(n)
  \/ LoopExit
  \/ Tick
  \/ PollNever
  \/ SleepOver
FairNoUpdate ==
  /\ InitFair /\ [][NextNoUpdate]_vars
  /\ WF_vars(PollNever) /\ WF_vars(SleepOver) /\ WF_vars(LoopExit)
  /\ WF_vars(Cleanup \/ MovePersona \/ DecidePersona \/ PersistMovement
               \/ Advance)

\* The controller with an agent runtime whose perceive/move may raise.
\* (Started from a storage that holds base alone, with steps of ten minutes.)
InitFail ==
  /\ Init
  /\ ~fs["trial1"].exists
  /\ fs["base"].meta.sec_per_step = 600
NextFail == Next \/ DecideRaises
SpecFail == InitFail /\ [][NextFail]_vars

\* ------------------------------------------------------------- claims
\* ticks of the current call of start_server that have completed
TicksDone == runN - int_counter
InRun == pc # "idle"

\* C1: every completed tick (the Advance step) increases step by exactly 1
\* and curr_time by exactly sec_per_step; no other step of a constructed
\* controller (a poll without an update, a phase of the tick, save, the
\* call and the return of start_server) changes step, curr_time or
\* sec_per_step.
C1_TickAdvancesStepAndClock ==
  [][ctl = "live" =>
       /\ sec_per_step' = sec_per_step
       /\ IF pc = "advance"
            THEN step' = step + 1 /\ curr_time' = curr_time + sec_per_step
            ELSE step' = step /\ curr_time' = curr_time]_vars
\* one completed tick, after a poll without an update
C1_Witness ==
  /\ pc = "loop" /\ TicksDone = 1 /\ nonePolls > 0
  /\ step = runStartStep + 1 /\ curr_time = runStartTime + sec_per_step

\* C2: with a bridge that delivers in the end, start_server(n) returns, and
\* it returns after exactly n ticks: step = startStep + n and
\* curr_time = startTime + n * sec_per_step (nothing changed for n = 0).
C2_RunTicksTerminatesExact ==
  [](InRun => <>(/\ pc = "idle"
                 /\ int_counter = 0
                 /\ step = runStartStep + runN
                 /\ curr_time = runStartTime + runN * sec_per_step))
\* a call of two ticks has returned
C2_Witness ==
  /\ pc = "idle" /\ ctl = "live" /\ runN = 2
  /\ step = runStartStep + 2 /\ curr_time = runStartTime + 2 * sec_per_step

\* C3: a poll without an update changes neither step, clock, registry tiles,
\* tile events, ledger nor the remaining-tick counter, and however many such
\* polls precede it an update applies one tick: at every point of the call
\* the ticks applied to step and clock are the ticks counted off int_counter.
C3_NoUpdatePollsApplyNothing ==
  [][/\ nonePolls' = nonePolls + 1 =>
          UNCHANGED <<step, curr_time, personas_tile, tiles, game_obj_cleanup,
                      int_counter>>
     /\ pc' # "idle" =>
          /\ step' = runStartStep' + (runN' - int_counter')
          /\ curr_time' = runStartTime' + (runN' - int_counter') * sec_per_step'
          /\ int_counter' >= 0]_vars
\* two polls without an update, then the one tick of the call
C3_Witness ==
  /\ pc = "loop" /\ runN = 1 /\ int_counter = 0 /\ nonePolls = 2
  /\ step = runStartStep + 1

\* two non-idle records of one subject on one tile
DuplicateNonIdle(t) ==
  \E e1 \in tiles[t], e2 \in tiles[t] :
     e1 # e2 /\ e1[1] = e2[1] /\ ~IsIdle(e1) /\ ~IsIdle(e2)
BetweenTicks == ctl = "live" /\ pc \in {"idle", "loop"}

\* C4: between ticks no tile holds two non-idle records of one subject.
C4_AtMostOneNonIdle == BetweenTicks => \A t \in Tiles : ~DuplicateNonIdle(t)

\* C5: once the cleanup phase of a tick is over and before its first tile
\* mutation, no object event spawned in the tick before is still on its
\* tile in non-idle form.
C5_IdledBeforeNextSpawn ==
  (pc = "move" /\ idx = 1) => \A p \in prevSpawned : p[1] \notin tiles[p[2]]

\* C6: the ledger outlives the call: what the last tick of one call of
\* start_server spawned (one tile per record) is idled by the first tick of
\* the next call.
C6_LedgerSurvivesCalls ==
  (pc = "move" /\ idx = 1 /\ TicksDone = 0) =>
     \A p \in prevSpawned :
        (\A q \in prevSpawned : q[1] = p[1] => q[2] = p[2]) =>
           p[1] \notin tiles[p[2]]

\* C7: once source A is forked into another identifier B, no step of the
\* controller (ticks, which write environment and movement records, and
\* save) changes anything stored under A.
C7_ForkSourceUntouched ==
  [][(ctl = "live" /\ fork_sim_code # sim_code) =>
        fs'[fork_sim_code] = fs[fork_sim_code]]_vars
\* B was mutated by two ticks and a save
C7_Witness ==
  /\ ctl = "live" /\ fork_sim_code = "base" /\ sim_code = "trial1"
  /\ fs["trial1"].meta.step = 2
  /\ DOMAIN fs["trial1"].movement = {0, 1}
  /\ fs["base"].meta.step = 0 /\ DOMAIN fs["base"].movement = {}

\* C8: from construction on, and after every save, the metadata persisted
\* for the controller's snapshot names the fork source it was built from.
C8_ForkLineageKept ==
  ctl = "live" =>
     /\ fs[sim_code].exists
     /\ fs[sim_code].meta.fork_sim_code = fork_sim_code
     /\ fork_sim_code \in Sims
\* saved after a tick, lineage still the source
C8_Witness ==
  /\ ctl = "live" /\ pc = "idle"
  /\ fs[sim_code].meta.step = 1
  /\ fs[sim_code].meta.fork_sim_code = "base"
  /\ fs["base"].meta.fork_sim_code = None

\* C9 as claimed: a constructor call leaves every snapshot that exists
\* unchanged (a target that exists is refused, not overwritten).
C9_ExistingTargetKept ==
  [][ctl # "live" => \A t \in Sims : fs[t].exists => fs'[t] = fs[t]]_vars
\* C9: a constructor call whose target exists is not refused: the old target
\* is removed; it is replaced by the copy of the source (lineage rewritten)
\* when the source is another snapshot that exists, and is gone otherwise.
C9_ExistingTargetReplaced ==
  [][ctl # "live" =>
       LET f == fork_sim_code'
           t == sim_code'
       IN fs[t].exists =>
            /\ overwrote'
            /\ IF f # t /\ fs[f].exists
                 THEN fs'[t] = [fs[f] EXCEPT !.meta.fork_sim_code = f]
                 ELSE ~fs'[t].exists]_vars
\* a controller built over a target that existed
C9_Witness ==
  /\ ctl = "live" /\ overwrote /\ sim_code = "trial1"
  /\ fs["trial1"].meta.step = 0 /\ DOMAIN fs["trial1"].movement = {}

\* C10 as claimed: after a tick the movement file written by it is keyed by
\* the step index the tick has advanced to.
C10_KeyedByNewStep ==
  (pc = "loop" /\ TicksDone > 0) => curr_move_file = step
\* C10: the movement batch is persisted before clock and step are advanced,
\* keyed by the step index the tick started with.
C10_KeyedByOldStep ==
  /\ pc = "advance" =>
       /\ curr_move_file = step
       /\ step \in DOMAIN fs[sim_code].movement
       /\ fs[sim_code].movement[step] = movements
       /\ step = runStartStep + TicksDone
       /\ curr_time = runStartTime + TicksDone * sec_per_step
  /\ (pc = "loop" /\ TicksDone > 0) =>
       /\ curr_move_file = step - 1
       /\ fs[sim_code].movement[step - 1] = movements
\* a tick has completed and its batch is on disk under the old index
C10_Witness ==
  /\ pc = "loop" /\ TicksDone = 1 /\ step = 1
  /\ DOMAIN fs[sim_code].movement = {0}

\* C11 as claimed: the meta.curr_time of the movement record a tick has
\* persisted equals the clock after that tick's advance.
C11_StampIsClockAfterTick ==
  (pc = "loop" /\ TicksDone > 0) =>
     fs[sim_code].movement[step - 1].meta.curr_time = FormatDateTime(curr_time)
\* C11: the meta.curr_time of the movement record of a tick is the clock the
\* tick started with: it equals the clock when the record is written, and
\* once the tick has advanced it is the clock less sec_per_step.
C11_StampIsClockBeforeAdvance ==
  /\ pc = "advance" =>
       /\ fs[sim_code].movement[step].meta.curr_time = FormatDateTime(curr_time)
       /\ ParseDateTime(fs[sim_code].movement[step].meta.curr_time) = curr_time
  /\ (pc = "loop" /\ TicksDone > 0) =>
       /\ ParseDateTime(fs[sim_code].movement[step - 1].meta.curr_time)
            = curr_time - sec_per_step
       /\ ParseDateTime(fs[sim_code].movement[step - 1].meta.curr_time)
            = runStartTime + (TicksDone - 1) * sec_per_step
\* the second tick of a call has advanced; its record carries the time of
\* the first advance
C11_Witness ==
  /\ pc = "loop" /\ TicksDone = 2
  /\ ParseDateTime(fs[sim_code].movement[step - 1].meta.curr_time)
       = runStartTime + sec_per_step
  /\ curr_time = runStartTime + 2 * sec_per_step

C13_FailureDoesNotAbortTick ==
  [][pc = "decide" =>
       /\ \/ pc' = "decide" /\ idx' = idx + 1
          \/ pc' = "persist" /\ idx = Len(PersonaNames)
       /\ personas_tile' = personas_tile
       /\ step' = step /\ curr_time' = curr_time]_vars

\* C14: save() (the one step that begins and ends outside start_server on a
\* constructed controller) leaves the metadata stored for the snapshot equal
\* to the controller's state field by field (lineage, start date, clock,
\* seconds per step, map, persona names in registry order, step), the
\* dates being read back as the constructor reads them; the stored state of
\* every persona is the one in memory; nothing in memory and no other
\* snapshot is changed.
C14_SaveMirrorsState ==
  [][(ctl = "live" /\ pc = "idle" /\ pc' = "idle") =>
       LET meta == fs'[sim_code].meta
       IN /\ meta.fork_sim_code = fork_sim_code
          /\ ParseDate(meta.start_date) = start_time
          /\ ParseDateTime(meta.curr_time) = curr_time
          /\ meta.sec_per_step = sec_per_step
          /\ meta.maze_name = maze_name
          /\ meta.persona_names = PersonaNames
          /\ meta.step = step
          /\ \A a \in Agents : fs'[sim_code].personas[a] = personas[a]
          /\ UNCHANGED <<frontend_pos, ctlVars>>
          /\ \A o \in Sims \ {sim_code} : fs'[o] = fs[o]
          /\ fs'[sim_code].environment = fs[sim_code].environment
          /\ fs'[sim_code].movement = fs[sim_code].movement]_vars
\* saved after two ticks that crossed midnight: the stored clock, step and
\* persona state are those in memory and differ from the fork source's
C14_Witness ==
  /\ ctl = "live" /\ pc = "idle" /\ step = 2
  /\ fs[sim_code].meta = SaveMeta
  /\ fs[sim_code].personas = personas
  /\ FormatDate(curr_time) # FormatDate(start_time)
  /\ fs[sim_code].personas # fs[fork_sim_code].personas
  /\ fs[sim_code].meta.curr_time # fs[fork_sim_code].meta.curr_time

\* C15: behind a bridge that never has an update, a call of start_server
\* that is waiting for the update of a tick does not wait forever: the wait
\* ends and the call returns to its caller (with the timeout error).
C15_WaitEndsWithTimeout ==
  [](((pc = "loop") /\ (int_counter # 0)) => <>(pc = "idle"))

\* an idle record and a non-idle record of one subject on one tile
IdleBesideNonIdle(t) ==
  \E e1 \in tiles[t], e2 \in tiles[t] :
     e1[1] = e2[1] /\ IsIdle(e1) /\ ~IsIdle(e2)

\* C16: between ticks no tile holds both the idle record and a non-idle
\* record of one object.
C16_IdleNotBesideNonIdle ==
  BetweenTicks => \A t \in Tiles : ~IdleBesideNonIdle(t)

\* C17: the phases of a tick follow one another in one order: the cleanup
\* of the ledger, the tile update of each persona in registry order, the
\* perceive/decide of each persona in the same order, the persisting of the
\* batch, the advance of step and clock.  The tile update of the i-th step
\* is that of the i-th persona and no persona decides during it; when a
\* persona decides, every persona stands on the tile the bridge reported,
\* no tile changes any more, and the decide of the i-th step is that of the
\* i-th persona: it alone changes, and the batch holds the first i personas.
C17_PhasesInOrder ==
  [][/\ pc = "cleanup" =>
          /\ pc' = "move" /\ idx' = 1
          /\ personas_tile' = personas_tile /\ personas' = personas
     /\ pc = "move" =>
          /\ personas_tile' = [personas_tile EXCEPT
                                 ![PersonaNames[idx]] = frontend_data[PersonaNames[idx]]]
          /\ personas' = personas
          /\ IF idx < Len(PersonaNames)
               THEN pc' = "move" /\ idx' = idx + 1
               ELSE pc' = "decide" /\ idx' = 1
     /\ pc = "decide" =>
          /\ \A a \in Agents : personas_tile[a] = frontend_data[a]
          /\ personas_tile' = personas_tile /\ tiles' = tiles
          /\ \A a \in Agents \ {PersonaNames[idx]} : personas'[a] = personas[a]
          /\ DOMAIN movements'.persona = {PersonaNames[j] : j \in 1..idx}
          /\ IF idx < Len(PersonaNames)
               THEN pc' = "decide" /\ idx' = idx + 1
               ELSE pc' = "persist"
     /\ pc = "persist" =>
          /\ pc' = "advance"
          /\ personas_tile' = personas_tile /\ personas' = personas
          /\ tiles' = tiles
     /\ pc = "advance" =>
          /\ pc' = "loop" /\ step' = step + 1
          /\ curr_time' = curr_time + sec_per_step
     /\ (pc # "advance" /\ ctl = "live") =>
          step' = step /\ curr_time' = curr_time]_vars
\* in the second tick of a call the first persona has decided to walk on,
\* the second has not decided yet, and both already stand where the bridge
\* put them
C17_Witness ==
  /\ pc = "decide" /\ idx = 2 /\ TicksDone = 1
  /\ DOMAIN movements.persona = {PersonaNames[1]}
  /\ movements.persona[PersonaNames[1]].movement # personas_tile[PersonaNames[1]]
  /\ \A a \in Agents : personas_tile[a] = frontend_data[a]
  /\ personas[PersonaNames[1]].curr_time = curr_time
  /\ personas[PersonaNames[2]].curr_time # curr_time

\* C18: for every persona in every tick, the new_day handed to move is set
\* (not False) exactly when the persona has no last-seen time or the
\* calendar day of the clock, which is the clock before the advance of the
\* tick, is another one than the day of its last-seen time; after the step
\* the persona's last-seen time is that clock.
C18_DayBoundaryFlag ==
  [][pc = "decide" =>
       LET name == PersonaNames[idx]
           last == personas[name].curr_time
       IN /\ (new_day' # NotNewDay) <=>
               (last = NoTime \/ FormatDate(last) # FormatDate(curr_time))
          /\ (last = NoTime) <=> (new_day' = "First day")
          /\ personas'[name].curr_time = curr_time
          /\ curr_time = runStartTime + TicksDone * sec_per_step]_vars
\* the second tick of a call begun the day after the first: the persona
\* has been handed "New day" and carries the time of the second tick
C18_Witness ==
  /\ pc = "persist" /\ TicksDone = 1
  /\ new_day = "New day"
  /\ FormatDate(curr_time) # FormatDate(runStartTime)
  /\ \A a \in Agents : personas[a].curr_time = curr_time

\* C19: a movement file is written in the persist step of a tick alone,
\* when every persona has decided in this tick (its last-seen time is the
\* clock of the tick); the batch written holds one entry for each persona of
\* the registry and for no one else, each with the four fields next tile,
\* glyph, description and dialogue, the next tile being the one the
\* persona's decide returned (the position handed to the bridge next).
C19_BatchCompleteAfterDecides ==
  [][(ctl = "live" /\ ctl' = "live"
        /\ fs'[sim_code].movement # fs[sim_code].movement) =>
       /\ pc = "persist"
       /\ \A a \in Agents : personas[a].curr_time = curr_time
       /\ DOMAIN fs'[sim_code].movement = DOMAIN fs[sim_code].movement \cup {step}
       /\ LET batch == fs'[sim_code].movement[step].persona
          IN /\ DOMAIN batch = Agents
             /\ \A a \in Agents :
                  /\ DOMAIN batch[a] =
                       {"movement", "pronunciatio", "description", "chat"}
                  /\ batch[a].movement = backend_data.persona[a]
                  /\ batch[a].pronunciatio = personas[a].act]_vars
\* the batch of the second tick is written, with two entries that differ
C19_Witness ==
  /\ pc = "advance" /\ step = 1 /\ 1 \in DOMAIN fs[sim_code].movement
  /\ DOMAIN fs[sim_code].movement[1].persona = Agents
  /\ fs[sim_code].movement[1].persona[PersonaNames[1]]
       # fs[sim_code].movement[1].persona[PersonaNames[2]]
  /\ fs[sim_code].movement[1].persona # fs[sim_code].movement[0].persona

\* C20: within one call of start_server, the ledger holds one entry for
\* each (record, tile) spawned in the tick, also when two personas spawn
\* equal records on different tiles, and so after the cleanup of the tick
\* that follows none of the records spawned in the tick before is left on
\* its tile in non-idle form.
C20_EverySpawnIdledNextTick ==
  /\ pc \in {"decide", "persist", "advance"} =>
       \A p \in spawned : p \in game_obj_cleanup
  /\ (pc = "move" /\ idx = 1 /\ TicksDone > 0) =>
       \A p \in prevSpawned :
          p[1] \notin tiles[p[2]] /\ BlankEvent(p[1][1]) \in tiles[p[2]]

\* the events of one subject on one tile
SubjectEvents(name, t) == {e \in tiles[t] : e[1] = name}

\* C21: between ticks every persona of the registry has exactly one event
\* of its own on the tile the registry records for it and none on any other
\* tile; once a tick of the call is over that tile is the one the bridge
\* reported.
C21_AgentEventAtRegistryTile ==
  BetweenTicks =>
     /\ \A a \in Agents :
          /\ Cardinality(SubjectEvents(a, personas_tile[a])) = 1
          /\ \A e \in SubjectEvents(a, personas_tile[a]) : ~IsIdle(e)
          /\ \A t \in Tiles \ {personas_tile[a]} : SubjectEvents(a, t) = {}
     /\ (pc = "loop" /\ TicksDone > 0) => personas_tile = frontend_data
\* after the second tick of a call the first persona stands on another tile
\* than the one it was constructed on
C21_Witness ==
  /\ pc = "loop" /\ TicksDone = 2
  /\ personas_tile[PersonaNames[1]] = "t2"
  /\ SubjectEvents(PersonaNames[1], "t2") # {}
  /\ SubjectEvents(PersonaNames[1], "t1") = {}

\* the tick under way is not the first one of this controller: the record
\* of its step was written by the bridge, not read by the constructor
LaterTick == fs[sim_code].environment[step].form = "bare"

\* C22: once the tile updates of a tick are done, every persona stands on
\* the next tile its decide returned in the tick before (the movement
\* record of step - 1), whether that tick belonged to this call of
\* start_server or to an earlier one; in the first tick of a controller it
\* stands on the tile of the environment record it was constructed from.
C22_MovedToDecidedTile ==
  (ctl = "live" /\ pc = "decide") =>
     \A a \in Agents :
        IF LaterTick
          THEN /\ step - 1 \in DOMAIN fs[sim_code].movement
               /\ personas_tile[a] =
                    fs[sim_code].movement[step - 1].persona[a].movement
          ELSE personas_tile[a] = fs[sim_code].environment[step].pos[a]

\* C23: what a controller has saved after one tick or more is a fork
\* source the constructor can load: the environment record of the saved
\* step exists, in the form __init__ reads, and holds the tile every
\* persona stood on.
C23_SavedRunIsForkSource ==
  (ctl = "live" /\ pc = "idle" /\ step >= 1
     /\ fs[sim_code].meta = SaveMeta /\ fs[sim_code].personas = personas) =>
     /\ Loadable(fs[sim_code])
     /\ fs[sim_code].environment[step].pos = personas_tile

\* C24: a constructor call leaves the tree of its source snapshot as it
\* was, whatever the source and the target are, also when they are the
\* same identifier.
C24_ConstructKeepsSource ==
  [][(ctl # "live" /\ fs[fork_sim_code'].exists) =>
        fs'[fork_sim_code'] = fs[fork_sim_code']]_vars

\* C25: every entry (record, tile) of the ledger refers to a non-idle
\* record that is on that tile, from the spawn until the cleanup that
\* consumes the entry: no idle call is made for a record that is not there.
C25_LedgerEntriesPresent ==
  (ctl = "live" /\ pc # "idle") =>
     \A p \in game_obj_cleanup : p[1] \in tiles[p[2]] /\ ~IsIdle(p[1])
\* the cleanup of a second tick is about to consume the entry of a record
\* spawned on t2, which is there
C25_Witness ==
  /\ pc = "cleanup" /\ TicksDone = 1
  /\ game_obj_cleanup # {}
  /\ \A p \in game_obj_cleanup :
       p[2] = "t2" /\ p[1] \in tiles[p[2]] /\ ~IsIdle(p[1])

====
